---------------------------- MODULE Spec2Model ----------------------------
(***************************************************************************)
(* Package Version Checker A2A agent: the POST /a2a/package handler        *)
(* (main.py), process_package_query and PackageChecker (services.py).      *)
(*                                                                         *)
(* One behaviour is the handling of one request.  The handler runs from    *)
(* the arrival of the body to its first outbound registry call (or to its  *)
(* response), and is resumed by the completion of each registry call.      *)
(*                                                                         *)
(* Text that the program takes apart (the query) is a sequence of          *)
(* one-character strings; text the program only passes along is a string.  *)
(***************************************************************************)
EXTENDS Integers, Sequences, FiniteSets, TLC

(***************************************************************************)
(* Bounds of the model.                                                    *)
(***************************************************************************)
\* longest "messages" list of an execute request
MaxMessages == 2
\* most pieces a query text of the parse_query check is put together from
MaxTokens == 3

(***************************************************************************)
(* Python values.  An Optional is <<>> (None) or <<v>>.                    *)
(***************************************************************************)
None == <<>>
Some(v) == <<v>>
IsNone(o) == o = <<>>
Val(o) == o[1]

(***************************************************************************)
(* str methods used by parse_query, on sequences of characters.            *)
(***************************************************************************)
LowerChar(c) ==
    CASE c = "A" -> "a" [] c = "B" -> "b" [] c = "C" -> "c" [] c = "D" -> "d"
      [] c = "E" -> "e" [] c = "F" -> "f" [] c = "G" -> "g" [] c = "H" -> "h"
      [] c = "I" -> "i" [] c = "J" -> "j" [] c = "K" -> "k" [] c = "L" -> "l"
      [] c = "M" -> "m" [] c = "N" -> "n" [] c = "O" -> "o" [] c = "P" -> "p"
      [] c = "Q" -> "q" [] c = "R" -> "r" [] c = "S" -> "s" [] c = "T" -> "t"
      [] c = "U" -> "u" [] c = "V" -> "v" [] c = "W" -> "w" [] c = "X" -> "x"
      [] c = "Y" -> "y" [] c = "Z" -> "z" [] OTHER -> c

\* str.lower()
Lower(s) == [i \in 1..Len(s) |-> LowerChar(s[i])]

\* s[i:].startswith(pat), i counted from 1
MatchAt(s, i, pat) ==
    /\ i + Len(pat) - 1 <= Len(s)
    /\ \A k \in 1..Len(pat) : s[i + k - 1] = pat[k]

\* pat in s
Contains(s, pat) == \E i \in 1..(Len(s) + 1) : MatchAt(s, i, pat)

RECURSIVE RemoveFrom(_, _, _)
\* s[i:].replace(pat, ""), pat non-empty: the non-overlapping occurrences,
\* leftmost first
RemoveFrom(s, i, pat) ==
    IF i > Len(s) THEN <<>>
    ELSE IF MatchAt(s, i, pat) THEN RemoveFrom(s, i + Len(pat), pat)
    ELSE <<s[i]>> \o RemoveFrom(s, i + 1, pat)

\* s.replace(pat, "")
Remove(s, pat) == RemoveFrom(s, 1, pat)

WhiteSpace == {" ", "\t", "\n", "\r"}

RECURSIVE LStrip(_)
LStrip(s) == IF s # <<>> /\ Head(s) \in WhiteSpace THEN LStrip(Tail(s)) ELSE s

RECURSIVE RStrip(_)
RStrip(s) ==
    IF s # <<>> /\ s[Len(s)] \in WhiteSpace
    THEN RStrip(SubSeq(s, 1, Len(s) - 1)) ELSE s

\* str.strip()
Strip(s) == RStrip(LStrip(s))

(***************************************************************************)
(* PackageChecker.parse_query: (package_name, package_type).               *)
(***************************************************************************)
FillerCheck   == <<"c","h","e","c","k"," ">>
FillerVersion == <<"v","e","r","s","i","o","n"," ","o","f"," ">>
FillerLatest  == <<"l","a","t","e","s","t"," ">>
FillerInfo    == <<"i","n","f","o"," ","f","o","r"," ">>
FillerAbout   == <<"a","b","o","u","t"," ">>

KwNpm        == <<"n","p","m">>
KwJavascript == <<"j","a","v","a","s","c","r","i","p","t">>
KwNode       == <<"n","o","d","e">>
KwPip        == <<"p","i","p">>
KwPython     == <<"p","y","t","h","o","n">>
KwPypi       == <<"p","y","p","i">>

\* the query lower-cased, the five filler phrases removed in the code's order
RemovePrefixes(query) ==
    Remove(Remove(Remove(Remove(Remove(Lower(query),
        FillerCheck), FillerVersion), FillerLatest), FillerInfo), FillerAbout)

IsNpmQuery(q) ==
    Contains(q, KwNpm) \/ Contains(q, KwJavascript) \/ Contains(q, KwNode)

IsPypiQuery(q) ==
    Contains(q, KwPip) \/ Contains(q, KwPython) \/ Contains(q, KwPypi)

\* mutation: the pip/python/pypi test comes before the npm/javascript/node test
parse_query_pypi_first(query) ==
    LET q == RemovePrefixes(query) IN
    IF IsPypiQuery(q)
    THEN [package_name |-> Strip(Remove(Remove(Remove(q, KwPip), KwPython), KwPypi)),
          package_type |-> Some("pypi")]
    ELSE IF IsNpmQuery(q)
    THEN [package_name |-> Strip(Remove(Remove(Remove(q, KwNpm), KwJavascript), KwNode)),
          package_type |-> Some("npm")]
    ELSE [package_name |-> Strip(q), package_type |-> None]

parse_query(query) ==
    LET q == RemovePrefixes(query) IN
    IF IsNpmQuery(q)
    THEN [package_name |-> Strip(Remove(Remove(Remove(q, KwNpm), KwJavascript), KwNode)),
          package_type |-> Some("npm")]
    ELSE IF IsPypiQuery(q)
    THEN [package_name |-> Strip(Remove(Remove(Remove(q, KwPip), KwPython), KwPypi)),
          package_type |-> Some("pypi")]
    ELSE [package_name |-> Strip(q), package_type |-> None]


(***************************************************************************)
(* Exceptions and results of a call: a call returns a value or raises.     *)
(***************************************************************************)
Exc(cls, msg) == [cls |-> cls, msg |-> msg]
Return(v) == [raised |-> None, ret |-> Some(v)]
Raise(e) == [raised |-> Some(e), ret |-> None]
Raised(r) == ~IsNone(r.raised)

\* the classes a Python "except ValueError" clause catches
ValueErrorClasses == {"ValueError", "JSONDecodeError", "UnicodeDecodeError", "ValidationError"}

MsgJSONDecode == "Expecting value: line 1 column 1 (char 0)"
MsgNoGet(type) == "'" \o type \o "' object has no attribute 'get'"

(***************************************************************************)
(* JSON values as Python sees them after response.json() / request.json(): *)
(* a tag t and a payload v (a string for "str", a function from keys to    *)
(* values for "dict").                                                     *)
(***************************************************************************)
PyStr(s)  == [t |-> "str", v |-> s]
PyText(cs) == [t |-> "text", v |-> cs]
PyNull    == [t |-> "NoneType", v |-> ""]
PyList    == [t |-> "list", v |-> ""]
PyDict(d) == [t |-> "dict", v |-> d]
EmptyDict == PyDict(<<>>)

\* d.get(key, default) on a dict; on anything else the attribute lookup fails
HasGet(x) == x.t = "dict"
Get(x, key, default) == IF key \in DOMAIN x.v THEN x.v[key] ELSE default
\* bool(x)
Truthy(x) ==
    CASE x.t = "NoneType" -> FALSE
      [] x.t = "str" -> x.v # ""
      [] x.t = "text" -> x.v # <<>>
      [] x.t = "dict" -> DOMAIN x.v # {}
      [] OTHER -> FALSE
\* str(x)
Str(x) ==
    CASE x.t = "str" -> x
      [] x.t = "text" -> x
      [] x.t = "NoneType" -> PyStr("None")
      [] x.t = "list" -> PyStr("[]")
      [] OTHER -> PyStr("{...}")

(***************************************************************************)
(* What a registry can answer to the single GET of a client call.          *)
(* kind "transport": client.get raised (timeout, connection failure);      *)
(* kind "response": a status and a body, body 0 being text that is not     *)
(* JSON and body i > 0 the i-th document below.                            *)
(***************************************************************************)
PypiBodies == <<
    PyDict([info |-> PyDict([name |-> PyStr("fastapi"), version |-> PyStr("0.110.0"),
                             summary |-> PyStr("web framework"), author |-> PyStr("tiangolo"),
                             license |-> PyStr("MIT"), home_page |-> PyStr(""),
                             project_url |-> PyStr("https://pypi.org/project/fastapi/"),
                             requires_python |-> PyStr(">=3.8")])]),
    PyDict([info |-> PyDict([home_page |-> PyStr("https://www.djangoproject.com/")])]),
    EmptyDict,
    PyDict([info |-> PyNull]),
    PyList >>

NpmBodies == <<
    PyDict([name |-> PyStr("react"), description |-> PyStr("ui library"),
            author |-> PyDict([name |-> PyStr("Meta")]), license |-> PyStr("MIT"),
            homepage |-> PyStr("https://react.dev/"),
            repository |-> PyDict([type |-> PyStr("git"), url |-> PyStr("git+https://github.com/facebook/react.git")])]
           @@ ("dist-tags" :> PyDict([latest |-> PyStr("18.2.0")]))),
    PyDict([name |-> PyStr("express"), author |-> PyStr("TJ Holowaychuk"),
            repository |-> PyStr("expressjs/express")]),
    PyDict([author |-> PyNull, repository |-> PyDict(<<>>)]),
    PyDict("dist-tags" :> PyNull),
    PyList >>

ErrorStatuses == {404, 500, 301}
TransportFailures == {"timed out"}

Outcome(kind, status, body, description) ==
    [kind |-> kind, status |-> status, body |-> body, description |-> description]

UpstreamOutcomes(bodies) ==
    {Outcome("transport", 0, 0, d) : d \in TransportFailures}
    \cup {Outcome("response", s, 0, "") : s \in ErrorStatuses}
    \cup {Outcome("response", 200, b, "") : b \in 0..Len(bodies)}

\* httpx.Response.is_success
IsSuccess(status) == 200 <= status /\ status <= 299

\* client.get, raise_for_status and response.json() of a client's try block:
\* the decoded document, or the exception raised on the way
FetchJson(outcome, bodies) ==
    IF outcome.kind = "transport" THEN Raise(Exc("TransportError", outcome.description))
    ELSE IF ~IsSuccess(outcome.status) THEN Raise(Exc("HTTPStatusError", ""))
    ELSE IF outcome.body = 0 THEN Raise(Exc("JSONDecodeError", MsgJSONDecode))
    ELSE Return(bodies[outcome.body])

(***************************************************************************)
(* PackageChecker.get_pypi_package                                         *)
(***************************************************************************)
\* the dict built from the decoded document, lines 85-96
PypiInfo(package_name, data) ==
    IF ~HasGet(data) THEN Raise(Exc("AttributeError", MsgNoGet(data.t)))
    ELSE LET info == Get(data, "info", EmptyDict) IN
    IF ~HasGet(info) THEN Raise(Exc("AttributeError", MsgNoGet(info.t)))
    ELSE Return([found |-> TRUE,
                 source |-> "PyPI",
                 name |-> Get(info, "name", PyText(package_name)),
                 version |-> Get(info, "version", PyStr("Unknown")),
                 description |-> Get(info, "summary", PyStr("No description")),
                 author |-> Get(info, "author", PyStr("Unknown")),
                 license |-> Get(info, "license", PyStr("Unknown")),
                 homepage |-> IF Truthy(Get(info, "home_page", PyNull))
                              THEN Get(info, "home_page", PyNull)
                              ELSE Get(info, "project_url", PyStr("")),
                 requires_python |-> Get(info, "requires_python", PyStr("Any"))])

\* the try block, lines 80-96
PypiTry(package_name, outcome) ==
    LET fetched == FetchJson(outcome, PypiBodies) IN
    IF Raised(fetched) THEN fetched ELSE PypiInfo(package_name, Val(fetched.ret))

NotFoundInfo(source, package_name, error) ==
    [found |-> FALSE, source |-> source, name |-> PyText(package_name), error |-> error]

\* the except clauses shared in shape by both clients, lines 97-102 and 127-132
ClientExcept(source, package_name, outcome, e) ==
    IF e.cls = "HTTPStatusError"
    THEN IF outcome.status = 404
         THEN Return(NotFoundInfo(source, package_name, "Package not found"))
         ELSE Return(NotFoundInfo(source, package_name, "HTTP " \o ToString(outcome.status)))
    ELSE Return(NotFoundInfo(source, package_name, e.msg))

\* mutation: the "except Exception" clause is missing
get_pypi_package_status_only(package_name, outcome) ==
    LET attempt == PypiTry(package_name, outcome) IN
    IF Raised(attempt) /\ Val(attempt.raised).cls = "HTTPStatusError"
    THEN ClientExcept("PyPI", package_name, outcome, Val(attempt.raised))
    ELSE attempt

get_pypi_package(package_name, outcome) ==
    LET attempt == PypiTry(package_name, outcome) IN
    IF Raised(attempt)
    THEN ClientExcept("PyPI", package_name, outcome, Val(attempt.raised))
    ELSE attempt

(***************************************************************************)
(* PackageChecker.get_npm_package                                          *)
(***************************************************************************)
\* x.get(key, default) if isinstance(x, dict) else str(x), lines 122 and 125
DictFieldOrStr(data, field, key, keyDefault, strDefault) ==
    IF field \in DOMAIN data.v /\ data.v[field].t = "dict"
    THEN Get(data.v[field], key, keyDefault)
    ELSE Str(Get(data, field, strDefault))

\* the dict built from the decoded document, lines 114-126
NpmInfo(package_name, data) ==
    IF ~HasGet(data) THEN Raise(Exc("AttributeError", MsgNoGet(data.t)))
    ELSE LET tags == Get(data, "dist-tags", EmptyDict) IN
    IF ~HasGet(tags) THEN Raise(Exc("AttributeError", MsgNoGet(tags.t)))
    ELSE Return([found |-> TRUE,
                 source |-> "npm",
                 name |-> Get(data, "name", PyText(package_name)),
                 version |-> Get(tags, "latest", PyStr("Unknown")),
                 description |-> Get(data, "description", PyStr("No description")),
                 author |-> DictFieldOrStr(data, "author", "name", PyStr("Unknown"), PyStr("Unknown")),
                 license |-> Get(data, "license", PyStr("Unknown")),
                 homepage |-> Get(data, "homepage", PyStr("")),
                 repository |-> DictFieldOrStr(data, "repository", "url", PyStr(""), PyStr(""))])

\* the try block, lines 109-126
NpmTry(package_name, outcome) ==
    LET fetched == FetchJson(outcome, NpmBodies) IN
    IF Raised(fetched) THEN fetched ELSE NpmInfo(package_name, Val(fetched.ret))

\* mutation: the "except httpx.HTTPStatusError" clause re-raises
get_npm_package_reraising(package_name, outcome) ==
    LET attempt == NpmTry(package_name, outcome) IN
    IF Raised(attempt) /\ Val(attempt.raised).cls # "HTTPStatusError"
    THEN ClientExcept("npm", package_name, outcome, Val(attempt.raised))
    ELSE attempt

get_npm_package(package_name, outcome) ==
    LET attempt == NpmTry(package_name, outcome) IN
    IF Raised(attempt)
    THEN ClientExcept("npm", package_name, outcome, Val(attempt.raised))
    ELSE attempt

(***************************************************************************)
(* PackageChecker.get_package_smart, a coroutine with two awaits: what it  *)
(* does when the PyPI call returns, and what it returns when the npm call  *)
(* returns.                                                                *)
(***************************************************************************)
\* mutation: the PyPI result is never returned, npm is always tried
SmartAlwaysFallsBack(pypi_result) == FALSE

\* lines 139-143: return the PyPI result, or go on to npm
SmartReturnsPypi(pypi_result) == pypi_result.found

\* lines 148-152
BothFailed(package_name) ==
    [found |-> FALSE, name |-> PyText(package_name),
     error |-> "Package not found in PyPI or npm"]

\* mutation: the npm result is returned whether found or not
SmartAfterNpmVerbatim(package_name, npm_result) == npm_result

\* lines 144-152
SmartAfterNpm(package_name, npm_result) ==
    IF npm_result.found THEN npm_result ELSE BothFailed(package_name)

(***************************************************************************)
(* PackageChecker.format_response.  The text is kept as its template and   *)
(* the values interpolated into it, absent lines being None.               *)
(***************************************************************************)
InfoGet(package_info, key, default) ==
    IF key \in DOMAIN package_info THEN package_info[key] ELSE default

format_response(package_info, package_name) ==
    IF ~InfoGet(package_info, "found", FALSE)
    THEN [template |-> "Could not find package",
          package |-> package_name,
          error |-> InfoGet(package_info, "error", "Unknown error")]
    ELSE LET source == InfoGet(package_info, "source", "Unknown")
             name == InfoGet(package_info, "name", PyText(package_name))
             homepage == InfoGet(package_info, "homepage", PyStr(""))
             repository == InfoGet(package_info, "repository", PyStr(""))
         IN [template |-> "Package card",
             name |-> name,
             source |-> source,
             version |-> InfoGet(package_info, "version", PyStr("Unknown")),
             description |-> InfoGet(package_info, "description", PyStr("No description")),
             author |-> InfoGet(package_info, "author", PyStr("Unknown")),
             license |-> InfoGet(package_info, "license", PyStr("Unknown")),
             homepage |-> IF Truthy(homepage) THEN Some(homepage) ELSE None,
             requires_python |-> IF source = "PyPI"
                                 THEN Some(InfoGet(package_info, "requires_python", PyStr("Any")))
                                 ELSE None,
             repository |-> IF source = "npm" /\ Truthy(repository)
                            THEN Some(repository) ELSE None,
             install |-> IF source = "PyPI" THEN Some("pip install")
                         ELSE IF source = "npm" THEN Some("npm install") ELSE None]

(***************************************************************************)
(* Messages.  A part has a kind and carries text or data.                  *)
(***************************************************************************)
MessagePart(kind, text, data) == [kind |-> kind, text |-> text, data |-> data]
TextPart(text) == MessagePart("text", Some(text), None)
DataPart(data) == MessagePart("data", None, Some(data))
A2AMessage(role, parts, taskId) == [role |-> role, parts |-> parts, taskId |-> taskId]

(***************************************************************************)
(* process_package_query, up to its first await.                           *)
(***************************************************************************)
\* x or str(uuid4()), lines 199-200: an absent or empty identifier is replaced
ResolveId(supplied, fresh) ==
    IF ~IsNone(supplied) /\ Val(supplied) # "" THEN Val(supplied) ELSE fresh

RECURSIVE FirstText(_, _)
\* lines 208-212: the stripped text of the first text part from index i on,
\* "" when there is none
FirstText(parts, i) ==
    IF i > Len(parts) THEN <<>>
    ELSE IF parts[i].kind = "text" THEN Strip(Val(parts[i].text))
    ELSE FirstText(parts, i + 1)

\* mutation: the first message is read instead of the last
ExtractQueryFromFirst(messages) ==
    IF messages = <<>> THEN Raise(Exc("ValueError", "No message provided"))
    ELSE LET query_text == FirstText(messages[1].parts, 1) IN
         IF query_text = <<>> THEN Raise(Exc("ValueError", "No text content in message"))
         ELSE Return(query_text)

\* lines 203-215: the query text, or the ValueError raised
ExtractQuery(messages) ==
    IF messages = <<>> THEN Raise(Exc("ValueError", "No message provided"))
    ELSE LET query_text == FirstText(messages[Len(messages)].parts, 1) IN
         IF query_text = <<>> THEN Raise(Exc("ValueError", "No text content in message"))
         ELSE Return(query_text)

\* mutation: the npm branch is missing, an npm hint takes the fallback chain
RouteWithoutNpmBranch(package_type) ==
    IF package_type = Some("pypi") THEN "pypi" ELSE "smart"

\* lines 224-230: the branch taken on package_type
Route(package_type) ==
    IF package_type = Some("pypi") THEN "pypi"
    ELSE IF package_type = Some("npm") THEN "npm"
    ELSE "smart"

\* lines 225, 227 and 138: the client a branch calls first
FirstClient(route) == IF route = "npm" THEN "npm" ELSE "pypi"

\* lines 198-230 up to the first registry call
ProcessStart(messages, context_id, task_id, fresh) ==
    LET query == ExtractQuery(messages) IN
    IF Raised(query) THEN query
    ELSE LET parsed == parse_query(Val(query.ret)) IN
         Return([query_text |-> Val(query.ret),
                 context_id |-> ResolveId(context_id, fresh[1]),
                 task_id |-> ResolveId(task_id, fresh[2]),
                 package_name |-> parsed.package_name,
                 package_type |-> parsed.package_type,
                 route |-> Route(parsed.package_type)])

(***************************************************************************)
(* process_package_query, from the package information to its TaskResult.  *)
(***************************************************************************)
\* lines 235-239
ResponseMessage(response_text, task_id) ==
    A2AMessage("agent", <<TextPart(response_text)>>, Some(task_id))

\* lines 242-247
Artifacts(package_info) ==
    << [name |-> "package_info", parts |-> <<DataPart(package_info)>>] >>

\* mutation: the reply is put before the input messages
HistoryReplyFirst(messages, response_message) == <<response_message>> \o messages

\* line 250
History(messages, response_message) == messages \o <<response_message>>

\* lines 232-261
BuildTaskResult(messages, context_id, task_id, package_info, package_name) ==
    LET response_message ==
            ResponseMessage(format_response(package_info, package_name), task_id)
    IN [id |-> task_id,
        contextId |-> context_id,
        status |-> [state |-> "completed", message |-> response_message],
        artifacts |-> Artifacts(package_info),
        history |-> History(messages, response_message)]

(***************************************************************************)
(* The request.  raw.parse is "error" when the body is not JSON, and       *)
(* otherwise raw.json is the decoded body: its Python type t, its truth    *)
(* value, and for a dict the keys the handler reads (None when absent).    *)
(***************************************************************************)
Body(t, truthy, jsonrpc, id, method, params) ==
    [t |-> t, truthy |-> truthy, jsonrpc |-> jsonrpc, id |-> id,
     method |-> method, params |-> params]

Params(shape, message, messages, contextId, taskId) ==
    [shape |-> shape, message |-> message, configuration |-> None,
     messages |-> messages, contextId |-> contextId, taskId |-> taskId]

NoParams == Params("none", None, <<>>, None, None)

(***************************************************************************)
(* The JSON-RPC responses of a2a_endpoint.                                 *)
(***************************************************************************)
ErrorResponse(status, id, code, message, details) ==
    [status |-> status, kind |-> "error", id |-> id, code |-> code,
     message |-> message, details |-> details, result |-> None]

\* lines 142-147
ResultResponse(id, result) ==
    [status |-> 200, kind |-> "result", id |-> Some(id), code |-> 0,
     message |-> "", details |-> None, result |-> Some(result)]

\* an exception that leaves a2a_endpoint: the server's own 500 page
ServerError ==
    [status |-> 500, kind |-> "server_error", id |-> None, code |-> 0,
     message |-> "Internal Server Error", details |-> None, result |-> None]

\* lines 65-75
EmptyBodyResponse ==
    ErrorResponse(400, None, -32600, "Invalid Request: Empty request body", None)
\* lines 79-89
BadVersionResponse(id) ==
    ErrorResponse(400, id, -32600, "Invalid Request: jsonrpc must be '2.0'", None)
\* lines 92-102
MissingIdResponse ==
    ErrorResponse(400, None, -32600, "Invalid Request: id is required", None)
\* lines 121-131
MethodNotFoundResponse(id, method) ==
    ErrorResponse(400, Some(id), -32601, "Method not found: " \o method, None)
\* lines 150-161
InvalidParamsResponse(id, e) ==
    ErrorResponse(400, id, -32602, "Invalid params", Some(e.msg))
\* lines 167-178
ParseErrorResponse ==
    ErrorResponse(400, None, -32700, "Parse error: Invalid JSON in request body",
                  Some("Please provide a valid JSON-RPC 2.0 request"))
\* lines 180-191
InternalErrorResponse(id, e) ==
    ErrorResponse(500, id, -32603, "Internal error", Some(e.msg))

(***************************************************************************)
(* a2a_endpoint: the try block up to the call of process_package_query.    *)
(***************************************************************************)
\* line 61: request.json() raises json.JSONDecodeError on a body that is not JSON
RequestJson(raw) ==
    IF raw.parse = "error" THEN Raise(Exc("JSONDecodeError", MsgJSONDecode))
    ELSE Return(raw.json)

\* lines 64-102: Return(Some(response)) to answer at once, Return(None) to go
\* on; body.get on a body that is no dict raises AttributeError
CheckEnvelope(body) ==
    IF ~body.truthy THEN Return(Some(EmptyBodyResponse))
    ELSE IF body.t # "dict" THEN Raise(Exc("AttributeError", MsgNoGet(body.t)))
    ELSE IF body.jsonrpc # Some("2.0") THEN Return(Some(BadVersionResponse(body.id)))
    ELSE IF IsNone(body.id) THEN Return(Some(MissingIdResponse))
    ELSE Return(None)

\* line 105: the request object built from the body's fields
JSONRPCRequest(body) ==
    [id |-> Val(body.id), method |-> Val(body.method), params |-> body.params]

\* mutation: the else branch is missing, any other method is run as "execute"
DispatchOtherAsExecute(rpc_request) ==
    IF rpc_request.method = "message/send"
    THEN [known |-> TRUE, messages |-> <<Val(rpc_request.params.message)>>,
          context_id |-> None, task_id |-> None]
    ELSE [known |-> TRUE, messages |-> rpc_request.params.messages,
          context_id |-> rpc_request.params.contextId,
          task_id |-> rpc_request.params.taskId]

\* lines 108-131: the arguments of process_package_query, or the answer
Dispatch(rpc_request) ==
    IF rpc_request.method = "message/send"
    THEN [known |-> TRUE, messages |-> <<Val(rpc_request.params.message)>>,
          context_id |-> None, task_id |-> None]
    ELSE IF rpc_request.method = "execute"
    THEN [known |-> TRUE, messages |-> rpc_request.params.messages,
          context_id |-> rpc_request.params.contextId,
          task_id |-> rpc_request.params.taskId]
    ELSE [known |-> FALSE, messages |-> <<>>, context_id |-> None, task_id |-> None]

(***************************************************************************)
(* a2a_endpoint: the except clauses, lines 149-191.  body is None when     *)
(* request.json() raised.                                                  *)
(***************************************************************************)
\* body.get("id") if body else None
BodyIdOrNone(body) ==
    IF IsNone(body) \/ ~Val(body).truthy THEN Return(None)
    ELSE IF Val(body).t # "dict" THEN Raise(Exc("AttributeError", MsgNoGet(Val(body).t)))
    ELSE Return(Val(body).id)

\* "Expecting value" in error_msg or "JSON" in error_msg
LooksLikeJsonError(msg) == msg \in {MsgJSONDecode}

HandleException(e, body) ==
    LET id == BodyIdOrNone(body) IN
    IF e.cls \in ValueErrorClasses
    THEN IF Raised(id) THEN ServerError ELSE InvalidParamsResponse(Val(id.ret), e)
    ELSE IF LooksLikeJsonError(e.msg) THEN ParseErrorResponse
    ELSE IF Raised(id) THEN ServerError ELSE InternalErrorResponse(Val(id.ret), e)

(***************************************************************************)
(* The requests the model sends.                                           *)
(***************************************************************************)
QCheckFastapi == <<"C","h","e","c","k"," ","f","a","s","t","a","p","i">>
QNpmReact == <<"n","p","m"," ","p","a","c","k","a","g","e"," ","r","e","a","c","t">>
QPythonDjango == <<"p","y","t","h","o","n"," ","p","a","c","k","a","g","e"," ",
                   "d","j","a","n","g","o">>
QLatestExpress == <<"L","a","t","e","s","t"," ","v","e","r","s","i","o","n"," ","o","f"," ",
                    "e","x","p","r","e","s","s"," ">>
QBlank == <<" "," ">>

UserMessage(parts) == A2AMessage("user", parts, None)

Messages == {
    UserMessage(<<TextPart(QCheckFastapi)>>),
    UserMessage(<<TextPart(QNpmReact)>>),
    UserMessage(<<TextPart(QPythonDjango)>>),
    UserMessage(<<DataPart("payload"), TextPart(QLatestExpress)>>),
    UserMessage(<<DataPart("payload")>>),
    UserMessage(<<TextPart(QBlank), TextPart(QCheckFastapi)>>) }

RECURSIVE MessageLists(_)
\* the lists of at most n messages
MessageLists(n) ==
    IF n = 0 THEN {<<>>}
    ELSE LET shorter == MessageLists(n - 1) IN
         shorter \cup {Append(l, m) : l \in {x \in shorter : Len(x) = n - 1}, m \in Messages}

\* an identifier as the caller gives it: absent, empty, or a token
SuppliedIds == {None, Some(""), Some("caller-id")}

SendParams == {Params("send", Some(m), <<>>, None, None) : m \in Messages}
ExecuteParams ==
    {Params("execute", None, l, c, t) :
        l \in MessageLists(MaxMessages), c \in SuppliedIds, t \in SuppliedIds}
SomeParams ==
    {NoParams,
     Params("send", Some(UserMessage(<<TextPart(QCheckFastapi)>>)), <<>>, None, None),
     Params("execute", None, <<>>, Some("caller-id"), None)}

\* decoded bodies that are no dict: null, false/true, 0/7, ""/"x", []/[1]
NonDictBodies ==
    {Body("NoneType", FALSE, None, None, None, NoParams)}
    \cup {Body(t, b, None, None, None, NoParams) :
            t \in {"bool", "int", "str", "list"}, b \in BOOLEAN}

\* dicts that fail the envelope checks: {}, and non-empty ones
BadEnvelopes ==
    {Body("dict", FALSE, None, None, None, NoParams)}
    \cup {Body("dict", TRUE, v, i, m, NoParams) :
            v \in {None, Some("1.0")}, i \in {None, Some("req-1")},
            m \in {None, Some("execute")}}
    \cup {Body("dict", TRUE, Some("2.0"), None, m, NoParams) :
            m \in {None, Some("message/send")}}

GoodEnvelopes ==
    {Body("dict", TRUE, Some("2.0"), Some("req-1"), Some("message/send"), p) :
        p \in SendParams}
    \cup {Body("dict", TRUE, Some("2.0"), Some("req-1"), Some("execute"), p) :
        p \in ExecuteParams}
    \cup {Body("dict", TRUE, Some("2.0"), Some("req-1"), Some(m), p) :
        m \in {"tasks/get", ""}, p \in SomeParams}

Requests ==
    {[parse |-> "error", json |-> Body("NoneType", FALSE, None, None, None, NoParams)]}
    \cup {[parse |-> "ok", json |-> b] :
            b \in NonDictBodies \cup BadEnvelopes \cup GoodEnvelopes}

\* two calls of uuid4 give two different tokens
FreshTokens == {<<"uuid-1", "uuid-2">>, <<"uuid-2", "uuid-1">>}

(***************************************************************************)
(* State.                                                                  *)
(***************************************************************************)
VARIABLES
    pc,            \* "start", "await_pypi", "await_npm", "done"
    raw,           \* the request received
    body,          \* a2a_endpoint's body: None until request.json() returns
    rpc_request,   \* a2a_endpoint's rpc_request
    messages,      \* process_package_query's arguments and locals
    context_id,
    task_id,
    query_text,
    package_name,
    package_type,
    route,         \* the branch of lines 224-230 being run
    pypi_result,   \* get_package_smart's locals, or the hinted call's result
    npm_result,
    package_info,
    log,           \* the registry calls started and ended, in order
    in_flight,     \* the clients with a call awaiting its response
    response       \* the HTTP response sent

requestVars == <<raw, body, rpc_request, messages, context_id, task_id,
                 query_text, package_name, package_type, route>>
vars == <<pc, raw, body, rpc_request, messages, context_id, task_id, query_text,
          package_name,
          package_type, route, pypi_result, npm_result, package_info, log,
          in_flight, response>>

Init ==
    /\ pc = "start"
    /\ raw = None
    /\ body = None
    /\ rpc_request = None
    /\ messages = <<>>
    /\ context_id = None
    /\ task_id = None
    /\ query_text = <<>>
    /\ package_name = <<>>
    /\ package_type = None
    /\ route = ""
    /\ pypi_result = None
    /\ npm_result = None
    /\ package_info = None
    /\ log = <<>>
    /\ in_flight = {}
    /\ response = None

\* an entry of the log: a call started, or ended with the registry's answer
Event(client, event, outcome) ==
    [client |-> client, event |-> event, outcome |-> outcome]
Started(client) == Event(client, "start", Outcome("", 0, 0, ""))
Ended(client, outcome) == Event(client, "end", outcome)

\* the handler returns `r`
Respond(r) ==
    /\ response' = Some(r)
    /\ pc' = "done"

\* the handler awaits client.get of `client`
StartCall(client) ==
    /\ log' = Append(log, Started(client))
    /\ in_flight' = in_flight \cup {client}
    /\ pc' = IF client = "pypi" THEN "await_pypi" ELSE "await_npm"
    /\ response' = response

\* lines 232-261 and 142-147: the TaskResult is built and returned
Complete(info) ==
    /\ package_info' = Some(info)
    /\ Respond(ResultResponse(Val(rpc_request).id,
           BuildTaskResult(messages, Val(context_id), Val(task_id), info, package_name)))

\* a2a_endpoint from the arrival of the request to its first registry call,
\* or to its response when it makes none
a2a_endpoint(r, fresh) ==
    /\ pc = "start"
    /\ raw' = Some(r)
    /\ UNCHANGED <<pypi_result, npm_result, package_info>>
    /\ LET parsed == RequestJson(r) IN
       IF Raised(parsed)
       THEN /\ Respond(HandleException(Val(parsed.raised), None))
            /\ UNCHANGED <<body, rpc_request, messages, context_id, task_id,
                           query_text, package_name, package_type, route, log, in_flight>>
       ELSE LET b == Val(parsed.ret)
                envelope == CheckEnvelope(b)
            IN
            /\ body' = Some(b)
            /\ IF Raised(envelope)
               THEN /\ Respond(HandleException(Val(envelope.raised), Some(b)))
                    /\ UNCHANGED <<rpc_request, messages, context_id, task_id,
                                   query_text, package_name, package_type, route, log, in_flight>>
               ELSE IF ~IsNone(Val(envelope.ret))
               THEN /\ Respond(Val(Val(envelope.ret)))
                    /\ UNCHANGED <<rpc_request, messages, context_id, task_id,
                                   query_text, package_name, package_type, route, log, in_flight>>
               ELSE LET rpc == JSONRPCRequest(b)
                        args == Dispatch(rpc)
                    IN
                    /\ rpc_request' = Some(rpc)
                    /\ IF ~args.known
                       THEN /\ Respond(MethodNotFoundResponse(rpc.id, rpc.method))
                            /\ UNCHANGED <<messages, context_id, task_id, query_text, package_name,
                                           package_type, route, log, in_flight>>
                       ELSE \E started \in {ProcessStart(args.messages, args.context_id,
                                                          args.task_id, fresh)} :
                            /\ messages' = args.messages
                            /\ IF Raised(started)
                               THEN /\ Respond(HandleException(Val(started.raised), Some(b)))
                                    /\ UNCHANGED <<context_id, task_id, query_text, package_name,
                                                   package_type, route, log, in_flight>>
                               ELSE LET s == Val(started.ret) IN
                                    /\ context_id' = Some(s.context_id)
                                    /\ task_id' = Some(s.task_id)
                                    /\ query_text' = s.query_text
                                    /\ package_name' = s.package_name
                                    /\ package_type' = s.package_type
                                    /\ route' = s.route
                                    /\ StartCall(FirstClient(s.route))

\* the PyPI call returns and the handler runs on to its next await or its end
pypi_responds(outcome) ==
    /\ pc = "await_pypi"
    /\ UNCHANGED requestVars
    /\ UNCHANGED npm_result
    /\ LET r == get_pypi_package(package_name, outcome)
           ended == Append(log, Ended("pypi", outcome))
       IN
       IF Raised(r)
       THEN /\ Respond(HandleException(Val(r.raised), body))
            /\ log' = ended
            /\ in_flight' = in_flight \ {"pypi"}
            /\ UNCHANGED <<pypi_result, package_info>>
       ELSE LET result == Val(r.ret) IN
            /\ pypi_result' = Some(result)
            /\ IF route = "pypi" \/ SmartReturnsPypi(result)
               THEN /\ Complete(result)
                    /\ log' = ended
                    /\ in_flight' = in_flight \ {"pypi"}
               ELSE /\ log' = ended \o <<Started("npm")>>
                    /\ in_flight' = (in_flight \ {"pypi"}) \cup {"npm"}
                    /\ pc' = "await_npm"
                    /\ UNCHANGED <<package_info, response>>

\* the npm call returns and the handler runs on to its end
npm_responds(outcome) ==
    /\ pc = "await_npm"
    /\ UNCHANGED requestVars
    /\ UNCHANGED pypi_result
    /\ log' = Append(log, Ended("npm", outcome))
    /\ in_flight' = in_flight \ {"npm"}
    /\ LET r == get_npm_package(package_name, outcome) IN
       IF Raised(r)
       THEN /\ Respond(HandleException(Val(r.raised), body))
            /\ UNCHANGED <<npm_result, package_info>>
       ELSE LET result == Val(r.ret) IN
            /\ npm_result' = Some(result)
            /\ IF route = "npm"
               THEN Complete(result)
               ELSE Complete(SmartAfterNpm(package_name, result))

\* a request arrives
Receive ==
    /\ pc = "start"
    /\ \E r \in Requests, fresh \in FreshTokens : a2a_endpoint(r, fresh)

\* PyPI answers, in any of the ways it can
PypiAnswers ==
    /\ pc = "await_pypi"
    /\ \E outcome \in UpstreamOutcomes(PypiBodies) : pypi_responds(outcome)

\* npm answers, in any of the ways it can
NpmAnswers ==
    /\ pc = "await_npm"
    /\ \E outcome \in UpstreamOutcomes(NpmBodies) : npm_responds(outcome)

Next == Receive \/ PypiAnswers \/ NpmAnswers

Spec == Init /\ [][Next]_vars

(***************************************************************************)
(* process_package_query from line 221 to its first await, on query texts  *)
(* put together from the words parse_query looks for.                      *)
(***************************************************************************)
QueryTokens == {
    <<"C","h","e","c","k"," ">>,
    FillerVersion, FillerLatest, FillerInfo, FillerAbout,
    KwNpm, KwNode, KwJavascript, KwPip, KwPython, KwPypi,
    <<" ">>, <<"x">> }

RECURSIVE TokenTexts(_)
\* the concatenations of at most n tokens
TokenTexts(n) ==
    IF n = 0 THEN {<<>>}
    ELSE LET shorter == TokenTexts(n - 1) IN
         shorter \cup {t \o tok : t \in shorter, tok \in QueryTokens}

\* lines 211-215: the text parse_query is given is stripped and not empty
QueryTexts == {t \in TokenTexts(MaxTokens) : t # <<>> /\ Strip(t) = t}

InitParse ==
    /\ pc = "parse"
    /\ query_text \in QueryTexts
    /\ raw = None
    /\ body = None
    /\ rpc_request = None
    /\ messages = <<>>
    /\ context_id = None
    /\ task_id = None
    /\ package_name = <<>>
    /\ package_type = None
    /\ route = ""
    /\ pypi_result = None
    /\ npm_result = None
    /\ package_info = None
    /\ log = <<>>
    /\ in_flight = {}
    /\ response = None

\* lines 221-230: the query is parsed and the first client call is made
ParseAndCall ==
    /\ pc = "parse"
    /\ \E parsed \in {parse_query(query_text)} :
          /\ package_name' = parsed.package_name
          /\ package_type' = parsed.package_type
          /\ route' = Route(parsed.package_type)
          /\ StartCall(FirstClient(Route(parsed.package_type)))
    /\ UNCHANGED <<raw, body, rpc_request, messages, context_id, task_id, query_text,
                   pypi_result, npm_result, package_info>>

SpecParse == InitParse /\ [][ParseAndCall]_vars

(***************************************************************************)
(* Properties.                                                             *)
(***************************************************************************)
Done == pc = "done"
TheResponse == Val(response)
ReqJson == Val(raw).json

\* the body was decoded and passes the checks of lines 64-102
EnvelopeOk ==
    /\ ~IsNone(raw)
    /\ Val(raw).parse = "ok"
    /\ ReqJson.t = "dict"
    /\ ReqJson.jsonrpc = Some("2.0")
    /\ ~IsNone(ReqJson.id)

KnownMethods == {"message/send", "execute"}

\* the messages the request carries
InputMessages ==
    IF Val(ReqJson.method) = "message/send"
    THEN <<Val(ReqJson.params.message)>>
    ELSE ReqJson.params.messages

\* the number of calls of a client that were started
Calls(client) ==
    Cardinality({i \in DOMAIN log : log[i].client = client /\ log[i].event = "start"})

\* the clients whose call was started and has not ended
Pending ==
    {c \in {"pypi", "npm"} :
        Calls(c) > Cardinality({i \in DOMAIN log : log[i].client = c /\ log[i].event = "end"})}

\* the PackageInfo that the response's single artifact carries
ArtifactData == Val(Val(TheResponse.result).artifacts[1].parts[1].data)

\* C1: with no ecosystem hint the fallback chain is strictly sequential: the
\* PyPI client is called exactly once, the npm client at most once and only
\* after the PyPI call has ended with found = false, at most one call is in
\* flight at a time, and when PyPI reports found = true its result is returned
\* and npm is never called.
C1_SequentialFallback ==
    (route # "" /\ IsNone(package_type)) =>
        /\ Calls("pypi") = 1
        /\ Calls("npm") <= 1
        /\ log[1] = Started("pypi")
        /\ in_flight = Pending
        /\ Cardinality(in_flight) <= 1
        /\ \A i \in DOMAIN log :
              log[i].client = "npm" =>
                  /\ i > 2
                  /\ log[2].client = "pypi" /\ log[2].event = "end"
                  /\ ~IsNone(pypi_result)
                  /\ ~Val(pypi_result).found
        /\ (~IsNone(pypi_result) /\ Val(pypi_result).found) =>
              /\ Calls("npm") = 0
              /\ IsNone(npm_result)
              /\ Done
              /\ TheResponse.kind = "result"
              /\ package_info = pypi_result
              /\ ArtifactData = Val(pypi_result)

C1_Witness ==
    /\ Done
    /\ route = "smart" /\ IsNone(package_type)
    /\ ~IsNone(pypi_result) /\ Val(pypi_result).found
    /\ Len(log) = 2
    /\ TheResponse.status = 200

\* C2: with a hint only the hinted client is called, once, and its result is
\* returned as it is, found or not; a 404 from the hinted registry gives
\* found = false with error "Package not found".
C2_HintedClientOnly ==
    ~IsNone(package_type) =>
        LET hint == Val(package_type)
            other == IF hint = "npm" THEN "pypi" ELSE "npm"
            hinted_result == IF hint = "npm" THEN npm_result ELSE pypi_result
            other_result == IF hint = "npm" THEN pypi_result ELSE npm_result
        IN
        /\ hint \in {"npm", "pypi"}
        /\ Calls(other) = 0
        /\ IsNone(other_result)
        /\ Calls(hint) = 1
        /\ Done =>
              /\ Len(log) = 2
              /\ ~IsNone(hinted_result)
              /\ package_info = hinted_result
              /\ TheResponse.kind = "result"
              /\ ArtifactData = Val(hinted_result)
              /\ (log[2].outcome.kind = "response" /\ log[2].outcome.status = 404) =>
                    /\ ~Val(package_info).found
                    /\ Val(package_info).error = "Package not found"

C2_Witness ==
    /\ Done
    /\ package_type = Some("npm")
    /\ Len(log) = 2
    /\ log[2].outcome.status = 404
    /\ ~Val(package_info).found
    /\ Val(package_info).error = "Package not found"
    /\ Calls("pypi") = 0

\* C3: with no hint, when both calls end with found = false, the PackageInfo
\* returned has found = false and the error "Package not found in PyPI or npm",
\* and holds neither registry's own error string nor a source.
C3_CombinedNotFound ==
    (/\ Done
     /\ IsNone(package_type)
     /\ ~IsNone(pypi_result) /\ ~Val(pypi_result).found
     /\ ~IsNone(npm_result) /\ ~Val(npm_result).found) =>
        /\ TheResponse.kind = "result"
        /\ DOMAIN Val(package_info) = {"found", "name", "error"}
        /\ ~Val(package_info).found
        /\ Val(package_info).error = "Package not found in PyPI or npm"
        /\ Val(package_info).error # Val(pypi_result).error
        /\ Val(package_info).error # Val(npm_result).error
        /\ ArtifactData = Val(package_info)

C3_Witness ==
    /\ Done
    /\ IsNone(package_type)
    /\ ~IsNone(pypi_result) /\ ~Val(pypi_result).found
    /\ Val(pypi_result).error = "HTTP 500"
    /\ ~IsNone(npm_result) /\ ~Val(npm_result).found
    /\ Val(npm_result).error = "timed out"
    /\ Val(package_info).error = "Package not found in PyPI or npm"

\* C4: every decoded body that lacks jsonrpc "2.0" or lacks an id, whatever
\* its JSON type, is answered with HTTP 400 and error code -32600.
C4_InvalidEnvelopeRejected ==
    (Done /\ Val(raw).parse = "ok" /\ ~EnvelopeOk) =>
        /\ TheResponse.status = 400
        /\ TheResponse.kind = "error"
        /\ TheResponse.code = -32600

\* C5: a request with jsonrpc "2.0" and an id whose method is neither
\* "message/send" nor "execute" is answered with HTTP 400, error code -32601
\* and the request's id, whatever its params.
C5_MethodNotFound ==
    (Done /\ EnvelopeOk /\ Val(ReqJson.method) \notin KnownMethods) =>
        /\ TheResponse.status = 400
        /\ TheResponse.kind = "error"
        /\ TheResponse.code = -32601
        /\ TheResponse.id = ReqJson.id
        /\ IsNone(TheResponse.result)

C5_Witness ==
    /\ Done
    /\ EnvelopeOk
    /\ Val(ReqJson.method) = "tasks/get"
    /\ ReqJson.params.shape = "execute"
    /\ TheResponse.code = -32601

\* C6: a response with error code -32700, -32600, -32601 or -32602 is sent
\* without any registry call having been made.
C6_ErrorsBeforeAnyCall ==
    (Done /\ TheResponse.kind = "error"
          /\ TheResponse.code \in {-32700, -32600, -32601, -32602}) =>
        /\ log = <<>>
        /\ in_flight = {}
        /\ IsNone(pypi_result) /\ IsNone(npm_result)

C6_Witness ==
    /\ Done
    /\ TheResponse.code = -32602
    /\ TheResponse.details = Some("No text content in message")
    /\ log = <<>>

\* the document a 2xx answer carries cannot be read as the client reads it
IllShaped(doc, key) ==
    \/ doc.t # "dict"
    \/ (key \in DOMAIN doc.v /\ doc.v[key].t # "dict")

\* what C7 says of one ended call: the answer, and the value the call returned
ClientAbsorbs(client, o, res) ==
    LET bodies == IF client = "pypi" THEN PypiBodies ELSE NpmBodies
        key == IF client = "pypi" THEN "info" ELSE "dist-tags"
    IN
    /\ ~IsNone(res)
    /\ Val(res).source = (IF client = "pypi" THEN "PyPI" ELSE "npm")
    /\ o.kind = "transport" =>
          ~Val(res).found /\ Val(res).error = o.description
    /\ (o.kind = "response" /\ o.status = 404) =>
          ~Val(res).found /\ Val(res).error = "Package not found"
    /\ (o.kind = "response" /\ o.status # 404 /\ (o.status < 200 \/ o.status > 299)) =>
          ~Val(res).found /\ Val(res).error = "HTTP " \o ToString(o.status)
    /\ (o.kind = "response" /\ o.status = 200 /\ o.body = 0) =>
          ~Val(res).found /\ Val(res).error = MsgJSONDecode
    /\ (o.kind = "response" /\ o.status = 200 /\ o.body > 0) =>
          IF IllShaped(bodies[o.body], key)
          THEN ~Val(res).found /\ "error" \in DOMAIN Val(res)
          ELSE Val(res).found

\* C7: a registry client call never raises: whatever the registry answers, the
\* call returns a PackageInfo, with found = false and the error "Package not
\* found" for 404, "HTTP <status>" for another non-2xx status and the failure's
\* description otherwise; so a request that reached a registry is answered
\* with 200 and a TaskResult, never with an error.
C7_ClientsNeverRaise ==
    /\ \A i \in DOMAIN log :
          log[i].event = "end" =>
              ClientAbsorbs(log[i].client, log[i].outcome,
                            IF log[i].client = "pypi" THEN pypi_result ELSE npm_result)
    /\ (Done /\ log # <<>>) =>
          /\ TheResponse.status = 200
          /\ TheResponse.kind = "result"
          /\ ~IsNone(TheResponse.result)
          /\ ~IsNone(package_info)

C7_Witness ==
    /\ Done
    /\ Len(log) = 4
    /\ log[2].outcome.kind = "transport"
    /\ log[4].outcome.status = 200 /\ log[4].outcome.body = 4
    /\ ~Val(npm_result).found
    /\ TheResponse.status = 200

\* C8: an empty message list fails with "No message provided", a last message
\* without a text part fails with "No text content in message"; both are
\* answered with HTTP 400 and code -32602, and no TaskResult is made.
C8_InputErrors ==
    (Done /\ EnvelopeOk /\ Val(ReqJson.method) \in KnownMethods) =>
        LET last == InputMessages[Len(InputMessages)]
            InvalidParams(details) ==
                /\ TheResponse.status = 400
                /\ TheResponse.kind = "error"
                /\ TheResponse.code = -32602
                /\ TheResponse.details = Some(details)
                /\ TheResponse.id = ReqJson.id
                /\ IsNone(TheResponse.result)
                /\ IsNone(package_info)
        IN
        /\ InputMessages = <<>> => InvalidParams("No message provided")
        /\ (InputMessages # <<>> /\ \A j \in DOMAIN last.parts : last.parts[j].kind # "text") =>
              InvalidParams("No text content in message")

C8_Witness ==
    /\ Done
    /\ EnvelopeOk
    /\ Val(ReqJson.method) = "execute"
    /\ Len(InputMessages) = 2
    /\ InputMessages[1].parts[1].kind = "text"
    /\ InputMessages[2].parts = <<DataPart("payload")>>
    /\ TheResponse.details = Some("No text content in message")

\* C9: every TaskResult has the state "completed", one artifact named
\* "package_info" with one data part holding the PackageInfo, and a history
\* that is the input messages, unchanged and in their order, followed by the
\* one agent reply.
C9_TaskResultShape ==
    (Done /\ TheResponse.kind = "result") =>
        LET result == Val(TheResponse.result)
            n == Len(InputMessages)
        IN
        /\ result.status.state = "completed"
        /\ Len(result.artifacts) = 1
        /\ result.artifacts[1].name = "package_info"
        /\ Len(result.artifacts[1].parts) = 1
        /\ result.artifacts[1].parts[1].kind = "data"
        /\ result.artifacts[1].parts[1].data = package_info
        /\ Len(result.history) = n + 1
        /\ \A i \in 1..n : result.history[i].role = "user"
        /\ result.history[n + 1].role = "agent"
        /\ Len(result.history[n + 1].parts) = 1
        /\ result.history[n + 1].parts[1].kind = "text"
        /\ result.history[n + 1] = result.status.message
        /\ SubSeq(result.history, 1, n) = InputMessages

C9_Witness ==
    /\ Done
    /\ TheResponse.kind = "result"
    /\ Val(ReqJson.method) = "execute"
    /\ Len(InputMessages) = 2
    /\ InputMessages[1] # InputMessages[2]
    /\ Len(Val(TheResponse.result).history) = 3

\* C10: for "execute", a contextId or taskId the caller supplies, the empty
\* string included, is returned unchanged as the TaskResult's contextId and
\* id; a fresh token is made only for one not supplied; the reply's taskId is
\* the TaskResult's id.
C10_IdentifiersEchoed ==
    (Done /\ TheResponse.kind = "result" /\ Val(ReqJson.method) = "execute") =>
        LET result == Val(TheResponse.result)
            supplied_context == ReqJson.params.contextId
            supplied_task == ReqJson.params.taskId
        IN
        /\ ~IsNone(supplied_context) => result.contextId = Val(supplied_context)
        /\ ~IsNone(supplied_task) => result.id = Val(supplied_task)
        /\ result.status.message.taskId = Some(result.id)

\* C11: a request whose body is not JSON is answered with HTTP 400 and a
\* JSON-RPC error with code -32700 and id null.
C11_ParseErrorCode ==
    (Done /\ Val(raw).parse = "error") =>
        /\ TheResponse.status = 400
        /\ TheResponse.kind = "error"
        /\ TheResponse.code = -32700
        /\ IsNone(TheResponse.id)

RECURSIVE RemoveEach(_, _)
\* the text with each of the phrases taken out, one phrase after the other
RemoveEach(text, phrases) ==
    IF phrases = <<>> THEN text
    ELSE RemoveEach(Remove(text, Head(phrases)), Tail(phrases))

ContainsAny(text, phrases) == \E k \in DOMAIN phrases : Contains(text, phrases[k])

FillerPhrases == <<FillerCheck, FillerVersion, FillerLatest, FillerInfo, FillerAbout>>
NpmKeywords == <<KwNpm, KwJavascript, KwNode>>
PypiKeywords == <<KwPip, KwPython, KwPypi>>

\* what C12 says parse_query gives for a text already lower-cased and rid of
\* the filler phrases
C12_Expected(text) ==
    IF ContainsAny(text, NpmKeywords)
    THEN [package_name |-> Strip(RemoveEach(text, NpmKeywords)), package_type |-> Some("npm")]
    ELSE IF ContainsAny(text, PypiKeywords)
    THEN [package_name |-> Strip(RemoveEach(text, PypiKeywords)), package_type |-> Some("pypi")]
    ELSE [package_name |-> Strip(text), package_type |-> None]

\* C12: parse_query decides the hint on the lower-cased text with the filler
\* phrases removed: npm if it contains "npm", "javascript" or "node" (only
\* these are then removed, "pip", "python" and "pypi" stay), else pypi if it
\* contains "pip", "python" or "pypi" (these are removed), else none and the
\* text as it is; the name is what remains, trimmed, and an empty name is
\* passed on to the registry client like any other.
C12_ParseQuery ==
    pc # "parse" =>
        \E expected \in {C12_Expected(RemoveEach(Lower(query_text), FillerPhrases))} :
            /\ package_type = expected.package_type
            /\ package_name = expected.package_name
            /\ IsNone(response)
            /\ log = <<Started(IF package_type = Some("npm") THEN "npm" ELSE "pypi")>>

C12_Witness ==
    /\ pc # "parse"
    /\ Contains(Lower(query_text), KwPip)
    /\ Contains(Lower(query_text), FillerLatest)
    /\ package_type = Some("npm")
    /\ Contains(package_name, KwPip)
    /\ ~Contains(package_name, FillerLatest)

=============================================================================
